---- MODULE Spec2Model ----
(***************************************************************************)
(* Model of video/out/opengl/hwdec_osx.c: the VideoToolbox hwdec driver    *)
(* that republishes CVPixelBuffers as GL rectangle textures.               *)
(*                                                                         *)
(* Pointers to vt_formats entries are modelled as 1-based table indices,   *)
(* NULL as 0.  CVPixelBufferRefs are buffer ids 1..NBufs, NULL as 0.  The  *)
(* IOSurface backing buffer b is identified with b.  Plane indices are     *)
(* 0-based as in the C code.                                               *)
(***************************************************************************)
EXTENDS Integers, Sequences, FiniteSets, TLC

\* ---------------------------------------------------------------- bounds
NBufs == 2
MaxBufPlanes == 3

\* ------------------------------------------------------ program constants
MP_MAX_PLANES == 4
NULL == 0

\* CoreVideo FourCC pixel format codes
kCVPixelFormatType_420YpCbCr8BiPlanarVideoRange == 875704438
kCVPixelFormatType_422YpCbCr8 == 846624121
kCVPixelFormatType_420YpCbCr8Planar == 2033463856
kCVPixelFormatType_32BGRA == 1111970369
\* a pixel format the driver has no entry for
kCVPixelFormatType_24RGB == 24

\* enumerators of mpv's image format enum (all distinct, above IMGFMT_START)
IMGFMT_420P == 1002
IMGFMT_UYVY == 1006
IMGFMT_NV12 == 1007
IMGFMT_RGB0 == 1030
IMGFMT_VIDEOTOOLBOX == 1060

GL_TEXTURE_RECTANGLE == 34037
kCGLNoError == 0
kCGLBadValue == 10008

Planes == 0 .. (MP_MAX_PLANES - 1)
Bufs == 1 .. NBufs

\* ----------------------------------------------------------- format table
NoPlaneFormat ==
    [gl_format |-> "0", gl_type |-> "0", gl_internal_format |-> "0", swizzle |-> ""]

PlaneFormat(fmt, type, internal, swz) ==
    [gl_format |-> fmt, gl_type |-> type, gl_internal_format |-> internal, swizzle |-> swz]

\* mutant: an entry lists one plane layout fewer than its plane count
GlArray_DropsLast(listed) ==
    [i \in Planes |-> IF i < Len(listed) - 1 THEN listed[i + 1] ELSE NoPlaneFormat]

\* designated initialiser of a gl[MP_MAX_PLANES] array: the listed slots, rest zero
GlArray(listed) ==
    [i \in Planes |-> IF i < Len(listed) THEN listed[i + 1] ELSE NoPlaneFormat]

vt_formats ==
    << [cvpixfmt |-> kCVPixelFormatType_420YpCbCr8BiPlanarVideoRange,
        imgfmt   |-> IMGFMT_NV12,
        planes   |-> 2,
        gl       |-> GlArray(<< PlaneFormat("GL_RED", "GL_UNSIGNED_BYTE", "GL_RED", ""),
                                PlaneFormat("GL_RG", "GL_UNSIGNED_BYTE", "GL_RG", "") >>)],
       [cvpixfmt |-> kCVPixelFormatType_422YpCbCr8,
        imgfmt   |-> IMGFMT_UYVY,
        planes   |-> 1,
        gl       |-> GlArray(<< PlaneFormat("GL_RGB_422_APPLE", "GL_UNSIGNED_SHORT_8_8_APPLE",
                                            "GL_RGB", "gbra") >>)],
       [cvpixfmt |-> kCVPixelFormatType_420YpCbCr8Planar,
        imgfmt   |-> IMGFMT_420P,
        planes   |-> 3,
        gl       |-> GlArray(<< PlaneFormat("GL_RED", "GL_UNSIGNED_BYTE", "GL_RED", ""),
                                PlaneFormat("GL_RED", "GL_UNSIGNED_BYTE", "GL_RED", ""),
                                PlaneFormat("GL_RED", "GL_UNSIGNED_BYTE", "GL_RED", "") >>)],
       [cvpixfmt |-> kCVPixelFormatType_32BGRA,
        imgfmt   |-> IMGFMT_RGB0,
        planes   |-> 1,
        gl       |-> GlArray(<< PlaneFormat("GL_BGRA", "GL_UNSIGNED_INT_8_8_8_8_REV",
                                            "GL_RGBA", "") >>)] >>

\* linear scan of a table from slot i for the first entry whose field equals
\* the key; the slot number, or NULL when the scan runs off the end
RECURSIVE ScanCvpixfmt(_, _, _)
ScanCvpixfmt(tbl, i, cvpixfmt) ==
    IF i > Len(tbl) THEN NULL
    ELSE IF tbl[i].cvpixfmt = cvpixfmt THEN i
    ELSE ScanCvpixfmt(tbl, i + 1, cvpixfmt)

\* mutant: the image-format scan compares the wrong field of the entry
RECURSIVE ScanImgfmt_CmpCvpixfmt(_, _, _)
ScanImgfmt_CmpCvpixfmt(tbl, i, imgfmt) ==
    IF i > Len(tbl) THEN NULL
    ELSE IF tbl[i].cvpixfmt = imgfmt THEN i
    ELSE ScanImgfmt_CmpCvpixfmt(tbl, i + 1, imgfmt)

RECURSIVE ScanImgfmt(_, _, _)
ScanImgfmt(tbl, i, imgfmt) ==
    IF i > Len(tbl) THEN NULL
    ELSE IF tbl[i].imgfmt = imgfmt THEN i
    ELSE ScanImgfmt(tbl, i + 1, imgfmt)

vt_get_gl_format(cvpixfmt) == ScanCvpixfmt(vt_formats, 1, cvpixfmt)

vt_get_gl_format_from_imgfmt(imgfmt) == ScanImgfmt(vt_formats, 1, imgfmt)

\* ------------------------------------------------------------------ state
VARIABLES
    hw_state,     \* "uninit" | "ready" | "destroyed" | "aborted" (assert failed)
    hw_priv,      \* hw->priv attached
    gl_version,   \* hw->gl->version
    cgl_context,  \* CGLGetCurrentContext() != NULL
    pbuf,         \* p->pbuf
    gl_planes,    \* p->gl_planes[MP_MAX_PLANES]
    textures,     \* GL texture names currently generated
    texImage,     \* per texture name: <<surface, plane>> backing it, or <<>>
    devs,         \* hw->devs, the device registry
    refcnt,       \* CoreVideo retain count of each buffer
    callerRef,    \* the frame source holds its own reference to the buffer
    held,         \* retains minus releases issued by the component, per buffer
    hw_image,     \* the frame handed to the last map_frame / download_image
    out_frame,    \* the caller's struct gl_hwdec_frame
    gl_trace,     \* GL/CGL calls issued by the last map_frame
    params,       \* the caller's struct mp_image_params
    videotoolbox_format, \* hw->global->opts->videotoolbox_format
    vt_fmt,       \* last value returned by get_vt_fmt
    lookup,       \* last table lookups made for a key, and their round trips
    lockcnt,      \* base-address lock count of each buffer
    dl_trace,     \* steps taken by the last download_image
    dl_image,     \* image returned by the last download_image: <<img>>, or <<>> for NULL
    op,           \* last operation run
    msg,          \* what it logged with MP_ERR
    ret           \* its return value

lifeVars == << hw_state, hw_priv, pbuf, gl_planes, textures, texImage, devs >>
envVars == << gl_version, cgl_context >>
bufVars == << refcnt, callerRef, held >>
mapVars == << out_frame, gl_trace >>
fmtVars == << params, videotoolbox_format, vt_fmt, lookup >>
dlVars == << lockcnt, dl_trace, dl_image >>
vars == << lifeVars, envVars, bufVars, hw_image, mapVars, fmtVars, dlVars, op, msg, ret >>

NoPlane ==
    [gl_texture |-> 0, gl_target |-> 0, tex_w |-> 0, tex_h |-> 0, swizzle |-> ""]

NoFrame ==
    [imgfmt |-> 0, pbuf |-> NULL, surface |-> NULL, cvpixfmt |-> 0,
     planar |-> FALSE, planes |-> 0, pts |-> 0]

GlVersions == {210, 300}

Init ==
    /\ hw_state = "uninit"
    /\ hw_priv = FALSE
    /\ gl_version \in GlVersions
    /\ cgl_context \in BOOLEAN
    /\ pbuf = NULL
    /\ gl_planes = [i \in Planes |-> 0]
    /\ textures = {}
    /\ texImage = [t \in 1 .. MP_MAX_PLANES |-> << >>]
    /\ devs = {}
    /\ refcnt = [b \in Bufs |-> 0]
    /\ callerRef = [b \in Bufs |-> FALSE]
    /\ held = [b \in Bufs |-> 0]
    /\ hw_image = NoFrame
    /\ out_frame = [i \in Planes |-> NoPlane]
    /\ gl_trace = << >>
    /\ params = [imgfmt |-> IMGFMT_VIDEOTOOLBOX, hw_subfmt |-> 0]
    /\ videotoolbox_format = 0
    /\ vt_fmt = 0
    /\ lookup = [key |-> 0, by_cv |-> NULL, by_img |-> NULL, cv_img |-> NULL, img_cv |-> NULL]
    /\ lockcnt = [b \in Bufs |-> 0]
    /\ dl_trace = << >>
    /\ dl_image = << >>
    /\ op = "init"
    /\ msg = << >>
    /\ ret = 0

\* ----------------------------------------------------------------- create
\* mutant: the check for a current CGL context is left out
check_hwdec_SkipsContext ==
    IF gl_version < 300
    THEN << "need >= OpenGL 3.0 for core rectangle texture support" >>
    ELSE << >>

check_hwdec ==
    IF gl_version < 300
    THEN << "need >= OpenGL 3.0 for core rectangle texture support" >>
    ELSE IF ~cgl_context
    THEN << "need cocoa opengl backend to be active" >>
    ELSE << >>

\* GenTextures(n, ...) in a context with no texture yet: the names 1 .. n
GenTextures(n) == [i \in 0 .. (n - 1) |-> i + 1]

create ==
    /\ hw_state = "uninit"
    /\ op' = "create"
    /\ msg' = check_hwdec
    /\ IF check_hwdec # << >>
       THEN /\ ret' = -1
            /\ UNCHANGED << lifeVars >>
       ELSE /\ hw_priv' = TRUE
            /\ pbuf' = NULL
            /\ gl_planes' = GenTextures(MP_MAX_PLANES)
            /\ textures' = textures \cup {GenTextures(MP_MAX_PLANES)[i] : i \in Planes}
            /\ devs' = devs \cup {"hwctx"}
            /\ hw_state' = "ready"
            /\ ret' = 0
            /\ UNCHANGED texImage
    /\ UNCHANGED << envVars, bufVars, hw_image, mapVars, fmtVars, dlVars >>

\* ----------------------------------------------------- the frame source
\* The decoder pipeline owns the frames: it creates a pixel buffer (holding
\* the one reference to it) and later drops its reference.
Decode(b) ==
    /\ hw_state # "aborted"
    /\ refcnt[b] = 0
    /\ refcnt' = [refcnt EXCEPT ![b] = 1]
    /\ callerRef' = [callerRef EXCEPT ![b] = TRUE]
    /\ op' = "decode"
    /\ UNCHANGED << lifeVars, envVars, held, hw_image, mapVars, fmtVars, dlVars, msg, ret >>

Unref(b) ==
    /\ hw_state # "aborted"
    /\ callerRef[b]
    /\ refcnt' = [refcnt EXCEPT ![b] = @ - 1]
    /\ callerRef' = [callerRef EXCEPT ![b] = FALSE]
    /\ op' = "unref"
    /\ UNCHANGED << lifeVars, envVars, held, hw_image, mapVars, fmtVars, dlVars, msg, ret >>

\* what CoreVideo can report for the pixel buffer of a frame: its pixel format
\* type, and its planar flag and plane count (0 planes for a non-planar buffer)
PixelFormatTypes ==
    {vt_formats[i].cvpixfmt : i \in 1 .. Len(vt_formats)} \cup {kCVPixelFormatType_24RGB}

PlaneLayouts ==
    {[planar |-> FALSE, planes |-> 0]} \cup [planar : {TRUE}, planes : 1 .. MaxBufPlanes]

\* CVPixelBufferRelease / CVPixelBufferRetain on a count table; NULL is a no-op
CVPixelBufferRelease(cnt, b) == IF b = NULL THEN cnt ELSE [cnt EXCEPT ![b] = @ - 1]

CVPixelBufferRetain(cnt, b) == IF b = NULL THEN cnt ELSE [cnt EXCEPT ![b] = @ + 1]

\* per-plane geometry of an IOSurface: every frame of the stream has the same
\* nominal size, and the planes after the first are subsampled
IOSurfaceGetWidthOfPlane(s, i) == IF i = 0 THEN 64 ELSE 32

IOSurfaceGetHeightOfPlane(s, i) == IF i = 0 THEN 48 ELSE 24

\* ------------------------------------------------------------- map_frame
\* the condition of the plane-count assertion
PlaneCountAssert(planar, planes, fplanes) ==
    (planar /\ planes = fplanes) \/ fplanes = 1

GlCall(name, arg, plane, err) ==
    [call |-> name, arg |-> arg, plane |-> plane, err |-> err]

\* mutant: the loop is left at the first plane whose import fails
RECURSIVE MapPlaneCalls_StopAtFailure(_, _, _, _)
MapPlaneCalls_StopAtFailure(i, n, texs, failed) ==
    IF i >= n THEN << >>
    ELSE << GlCall("BindTexture", texs[i], i, kCGLNoError),
            GlCall("CGLTexImageIOSurface2D", texs[i], i,
                   IF i \in failed THEN kCGLBadValue ELSE kCGLNoError),
            GlCall("BindTexture", 0, i, kCGLNoError) >>
         \o (IF i \in failed THEN << >>
             ELSE MapPlaneCalls_StopAtFailure(i + 1, n, texs, failed))

\* the GL/CGL calls of loop iterations i .. n-1
RECURSIVE MapPlaneCalls(_, _, _, _)
MapPlaneCalls(i, n, texs, failed) ==
    IF i >= n THEN << >>
    ELSE << GlCall("BindTexture", texs[i], i, kCGLNoError),
            GlCall("CGLTexImageIOSurface2D", texs[i], i,
                   IF i \in failed THEN kCGLBadValue ELSE kCGLNoError),
            GlCall("BindTexture", 0, i, kCGLNoError) >>
         \o MapPlaneCalls(i + 1, n, texs, failed)

\* the MP_ERR lines of loop iterations i .. n-1
RECURSIVE MapPlaneErrors(_, _, _)
MapPlaneErrors(i, n, failed) ==
    IF i >= n THEN << >>
    ELSE (IF i \in failed THEN << "error creating IOSurface texture for plane" >> ELSE << >>)
         \o MapPlaneErrors(i + 1, n, failed)

\* mutant: the plane index is published in place of the texture handle
MapPlaneEntry_IndexAsHandle(f, surface, i) ==
    [gl_texture |-> i,
     gl_target  |-> GL_TEXTURE_RECTANGLE,
     tex_w      |-> IOSurfaceGetWidthOfPlane(surface, i),
     tex_h      |-> IOSurfaceGetHeightOfPlane(surface, i),
     swizzle    |-> vt_formats[f].gl[i].swizzle]

\* mutant: every plane is given the frame's nominal (plane 0) size
MapPlaneEntry_NominalSize(f, surface, i) ==
    [gl_texture |-> gl_planes[i],
     gl_target  |-> GL_TEXTURE_RECTANGLE,
     tex_w      |-> IOSurfaceGetWidthOfPlane(surface, 0),
     tex_h      |-> IOSurfaceGetHeightOfPlane(surface, 0),
     swizzle    |-> vt_formats[f].gl[i].swizzle]

\* the out_frame->planes[i] written by iteration i
MapPlaneEntry(f, surface, i) ==
    [gl_texture |-> gl_planes[i],
     gl_target  |-> GL_TEXTURE_RECTANGLE,
     tex_w      |-> IOSurfaceGetWidthOfPlane(surface, i),
     tex_h      |-> IOSurfaceGetHeightOfPlane(surface, i),
     swizzle    |-> vt_formats[f].gl[i].swizzle]

\* mutant: the slot is assigned before the release, so the release and the
\* retain both act on the incoming buffer
MapRetain_ReleasesNew(b) ==
    /\ pbuf' = b
    /\ refcnt' = CVPixelBufferRetain(CVPixelBufferRelease(refcnt, b), b)
    /\ held' = CVPixelBufferRetain(CVPixelBufferRelease(held, b), b)

\* mutant: the new buffer is retained without releasing the old one
MapRetain_NoRelease(b) ==
    /\ pbuf' = b
    /\ refcnt' = CVPixelBufferRetain(refcnt, b)
    /\ held' = CVPixelBufferRetain(held, b)

\* the slot swap that opens map_frame
MapRetain(b) ==
    /\ pbuf' = b
    /\ refcnt' = CVPixelBufferRetain(CVPixelBufferRelease(refcnt, pbuf), b)
    /\ held' = CVPixelBufferRetain(CVPixelBufferRelease(held, pbuf), b)

\* mutant: every import call is handed plane 0 of the surface
MapPlanes_ImportsPlaneZero(f, surface, failed) ==
    /\ gl_trace' = MapPlaneCalls(0, vt_formats[f].planes, gl_planes, failed)
    /\ msg' = MapPlaneErrors(0, vt_formats[f].planes, failed)
    /\ texImage' = [t \in DOMAIN texImage |->
                      IF \E i \in 0 .. (vt_formats[f].planes - 1) :
                            gl_planes[i] = t /\ i \notin failed
                      THEN << surface, 0 >>
                      ELSE texImage[t]]
    /\ out_frame' = [i \in Planes |->
                       IF i < vt_formats[f].planes
                       THEN MapPlaneEntry(f, surface, i)
                       ELSE out_frame[i]]
    /\ ret' = 0
    /\ UNCHANGED hw_state

\* the loop over the descriptor's planes and the successful return
MapPlanes(f, surface, failed) ==
    /\ gl_trace' = MapPlaneCalls(0, vt_formats[f].planes, gl_planes, failed)
    /\ msg' = MapPlaneErrors(0, vt_formats[f].planes, failed)
    /\ texImage' = [t \in DOMAIN texImage |->
                      IF \E i \in 0 .. (vt_formats[f].planes - 1) :
                            gl_planes[i] = t /\ i \notin failed
                      THEN << surface,
                              CHOOSE i \in 0 .. (vt_formats[f].planes - 1) :
                                  gl_planes[i] = t >>
                      ELSE texImage[t]]
    /\ out_frame' = [i \in Planes |->
                       IF i < vt_formats[f].planes
                       THEN MapPlaneEntry(f, surface, i)
                       ELSE out_frame[i]]
    /\ ret' = 0
    /\ UNCHANGED hw_state

\* mutant: the error paths log but report success
MapError_ReturnsOk(text) ==
    /\ ret' = 0
    /\ msg' = << text >>
    /\ gl_trace' = << >>
    /\ UNCHANGED << hw_state, texImage, out_frame >>

\* mutant: an error return wipes the caller's out_frame
MapError_ClearsOutFrame(text) ==
    /\ ret' = -1
    /\ msg' = << text >>
    /\ gl_trace' = << >>
    /\ out_frame' = [i \in Planes |-> NoPlane]
    /\ UNCHANGED << hw_state, texImage >>

MapError(text) ==
    /\ ret' = -1
    /\ msg' = << text >>
    /\ gl_trace' = << >>
    /\ UNCHANGED << hw_state, texImage, out_frame >>

MapAbort ==
    /\ hw_state' = "aborted"
    /\ msg' = << "assert" >>
    /\ gl_trace' = << >>
    /\ UNCHANGED << texImage, out_frame, ret >>

\* map_frame on a frame whose planes[3] is buffer b.  What the CoreVideo
\* getters report is drawn where the code queries it: the surface first, the
\* pixel format only when there is a surface, the plane layout only when the
\* format resolved; the CGL import result per plane inside the loop.
map_frame(b) ==
    /\ hw_state = "ready"
    /\ callerRef[b]
    /\ op' = "map_frame"
    /\ MapRetain(b)
    /\ \E surface \in {NULL, b} :
         IF surface = NULL
         THEN /\ hw_image' = [NoFrame EXCEPT !.imgfmt = IMGFMT_VIDEOTOOLBOX, !.pbuf = b]
              /\ MapError("CVPixelBuffer has no IOSurface")
         ELSE \E cvpixfmt \in PixelFormatTypes :
            LET f == vt_get_gl_format(cvpixfmt) IN
            IF f = NULL
            THEN /\ hw_image' = [NoFrame EXCEPT !.imgfmt = IMGFMT_VIDEOTOOLBOX, !.pbuf = b,
                                                !.surface = surface, !.cvpixfmt = cvpixfmt]
                 /\ MapError("CVPixelBuffer has unsupported format type")
            ELSE \E lay \in PlaneLayouts :
               /\ hw_image' = [NoFrame EXCEPT !.imgfmt = IMGFMT_VIDEOTOOLBOX, !.pbuf = b,
                                              !.surface = surface, !.cvpixfmt = cvpixfmt,
                                              !.planar = lay.planar, !.planes = lay.planes]
               /\ IF ~PlaneCountAssert(lay.planar, lay.planes, vt_formats[f].planes)
                  THEN MapAbort
                  ELSE \E failed \in SUBSET (0 .. (vt_formats[f].planes - 1)) :
                          MapPlanes(f, surface, failed)
    /\ UNCHANGED << hw_priv, gl_planes, textures, devs, envVars, callerRef,
                    fmtVars, dlVars >>

\* ---------------------------------------------------------------- destroy
\* mutant: destroy forgets the retained buffer
DestroyRelease_Skip == UNCHANGED << refcnt, held >>

DestroyRelease ==
    /\ refcnt' = CVPixelBufferRelease(refcnt, pbuf)
    /\ held' = CVPixelBufferRelease(held, pbuf)

destroy ==
    /\ hw_state = "ready"
    /\ op' = "destroy"
    /\ DestroyRelease
    /\ textures' = textures \ {gl_planes[i] : i \in Planes}
    /\ texImage' = [t \in DOMAIN texImage |->
                      IF t \in {gl_planes[i] : i \in Planes} THEN << >> ELSE texImage[t]]
    /\ devs' = devs \ {"hwctx"}
    /\ hw_state' = "destroyed"
    /\ msg' = << >>
    /\ UNCHANGED << hw_priv, pbuf, gl_planes, envVars, callerRef, hw_image, mapVars,
                    fmtVars, dlVars, ret >>

\* ----------------------------------------------------------------- reinit
\* values a caller can put in an image-format or subformat field
FormatKeys ==
    {vt_formats[i].cvpixfmt : i \in 1 .. Len(vt_formats)}
        \cup {vt_formats[i].imgfmt : i \in 1 .. Len(vt_formats)}
        \cup {0, kCVPixelFormatType_24RGB, IMGFMT_VIDEOTOOLBOX}

\* the caller fills in the params it will hand to reinit
SetParams(imgfmt, hw_subfmt) ==
    /\ hw_state = "ready"
    /\ params' = [imgfmt |-> imgfmt, hw_subfmt |-> hw_subfmt]
    /\ op' = "set_params"
    /\ UNCHANGED << lifeVars, envVars, bufVars, hw_image, mapVars, videotoolbox_format,
                    vt_fmt, lookup, dlVars, msg, ret >>

\* mutant: the subformat is resolved as a CoreVideo pixel format type
ReinitLookup_ByCvpixfmt(hw_subfmt) == vt_get_gl_format(hw_subfmt)

\* the lookup reinit resolves the subformat with
ReinitLookup(hw_subfmt) == vt_get_gl_format_from_imgfmt(hw_subfmt)

\* mutant: the subformat field is not cleared on success
ReinitOk_KeepSubfmt(f) ==
    /\ params' = [imgfmt |-> vt_formats[f].imgfmt, hw_subfmt |-> params.hw_subfmt]
    /\ msg' = << >>
    /\ ret' = 0

ReinitOk(f) ==
    /\ params' = [imgfmt |-> vt_formats[f].imgfmt, hw_subfmt |-> 0]
    /\ msg' = << >>
    /\ ret' = 0

ReinitFail ==
    /\ msg' = << "Unsupported CVPixelBuffer format." >>
    /\ ret' = -1
    /\ UNCHANGED params

reinit ==
    /\ hw_state = "ready"
    /\ op' = "reinit"
    /\ IF params.imgfmt # IMGFMT_VIDEOTOOLBOX
       THEN /\ hw_state' = "aborted"
            /\ msg' = << "assert" >>
            /\ UNCHANGED << params, ret >>
       ELSE /\ IF ReinitLookup(params.hw_subfmt) = NULL
               THEN ReinitFail
               ELSE ReinitOk(ReinitLookup(params.hw_subfmt))
            /\ UNCHANGED hw_state
    /\ UNCHANGED << hw_priv, pbuf, gl_planes, textures, texImage, devs, envVars, bufVars,
                    hw_image, mapVars, videotoolbox_format, vt_fmt, lookup, dlVars >>

\* get_vt_fmt, reached through the registered vtctx, under option value o
get_vt_fmt(o) ==
    /\ "hwctx" \in devs
    /\ videotoolbox_format' = o
    /\ vt_fmt' = IF vt_get_gl_format_from_imgfmt(o) # NULL
                 THEN vt_formats[vt_get_gl_format_from_imgfmt(o)].cvpixfmt
                 ELSE -1
    /\ op' = "get_vt_fmt"
    /\ UNCHANGED << lifeVars, envVars, bufVars, hw_image, mapVars, params, lookup,
                    dlVars, msg, ret >>

\* both table lookups applied to key k, and each result looked up again by the
\* other field of the entry it found
Lookup(k) ==
    /\ lookup' =
          [key    |-> k,
           by_cv  |-> vt_get_gl_format(k),
           by_img |-> vt_get_gl_format_from_imgfmt(k),
           cv_img |-> IF vt_get_gl_format(k) = NULL THEN NULL
                      ELSE vt_get_gl_format_from_imgfmt(vt_formats[vt_get_gl_format(k)].imgfmt),
           img_cv |-> IF vt_get_gl_format_from_imgfmt(k) = NULL THEN NULL
                      ELSE vt_get_gl_format(vt_formats[vt_get_gl_format_from_imgfmt(k)].cvpixfmt)]
    /\ op' = "lookup"
    /\ UNCHANGED << lifeVars, envVars, bufVars, hw_image, mapVars, params,
                    videotoolbox_format, vt_fmt, dlVars, msg, ret >>

\* --------------------------------------------------------- download_image
\* struct mp_image img = {0}
NoImage ==
    [imgfmt |-> 0, w |-> 0, h |-> 0, planes |-> [i \in Planes |-> NULL],
     stride |-> [i \in Planes |-> 0], pts |-> 0]

\* memory an image plane can point into: buffer b's planes are PbufMem(b),
\* the image pool's allocation is PoolMem
PbufMem(b) == b

PoolMem == NBufs + 1

CVPixelBufferGetWidth(b) == IOSurfaceGetWidthOfPlane(b, 0)

CVPixelBufferGetHeight(b) == IOSurfaceGetHeightOfPlane(b, 0)

CVPixelBufferGetBytesPerRowOfPlane(b, i) == IOSurfaceGetWidthOfPlane(b, i)

mp_image_setfmt(img, imgfmt) == [img EXCEPT !.imgfmt = imgfmt]

mp_image_set_size(img, w, h) == [img EXCEPT !.w = w, !.h = h]

mp_image_copy_attributes(dst, src) == [dst EXCEPT !.pts = src.pts]

\* an owned copy of img in pool memory, or NULL when the pool cannot allocate
mp_image_pool_new_copy(pool_ok, img) ==
    IF pool_ok
    THEN << [img EXCEPT !.planes = [i \in Planes |-> IF img.planes[i] = NULL THEN NULL
                                                    ELSE PoolMem]] >>
    ELSE << >>

\* mutant: the view keeps the hardware frame's format tag
DlView_KeepsTag(f, hw) ==
    LET sized == mp_image_set_size(mp_image_setfmt(NoImage, hw.imgfmt),
                                   CVPixelBufferGetWidth(hw.pbuf),
                                   CVPixelBufferGetHeight(hw.pbuf))
        filled == [sized EXCEPT
                     !.planes = [i \in Planes |-> IF i < vt_formats[f].planes
                                                  THEN PbufMem(hw.pbuf) ELSE NULL],
                     !.stride = [i \in Planes |-> IF i < vt_formats[f].planes
                                                  THEN CVPixelBufferGetBytesPerRowOfPlane(hw.pbuf, i)
                                                  ELSE 0]]
    IN mp_image_copy_attributes(filled, hw)

\* the view built over the locked buffer
DlView(f, hw) ==
    LET sized == mp_image_set_size(mp_image_setfmt(NoImage, vt_formats[f].imgfmt),
                                   CVPixelBufferGetWidth(hw.pbuf),
                                   CVPixelBufferGetHeight(hw.pbuf))
        filled == [sized EXCEPT
                     !.planes = [i \in Planes |-> IF i < vt_formats[f].planes
                                                  THEN PbufMem(hw.pbuf) ELSE NULL],
                     !.stride = [i \in Planes |-> IF i < vt_formats[f].planes
                                                  THEN CVPixelBufferGetBytesPerRowOfPlane(hw.pbuf, i)
                                                  ELSE 0]]
    IN mp_image_copy_attributes(filled, hw)

\* the reads of plane i .. n-1 of the locked buffer
RECURSIVE DlPlaneReads(_, _)
DlPlaneReads(i, n) ==
    IF i >= n THEN << >> ELSE << "read_plane" >> \o DlPlaneReads(i + 1, n)

\* mutant: the buffer is unlocked before the copy into the pool is made
DlSteps_UnlockBeforeCopy(f) ==
    IF f = NULL
    THEN << "lock", "resolve", "unlock" >>
    ELSE << "lock", "resolve" >> \o DlPlaneReads(0, vt_formats[f].planes)
         \o << "copy_attributes", "unlock", "pool_copy" >>

\* mutant: the unresolved-format path returns without unlocking
DlSteps_LeakOnFail(f) ==
    IF f = NULL
    THEN << "lock", "resolve" >>
    ELSE << "lock", "resolve" >> \o DlPlaneReads(0, vt_formats[f].planes)
         \o << "copy_attributes", "pool_copy", "unlock" >>

\* the steps download_image takes on a frame with the hardware tag
DlSteps(f) ==
    IF f = NULL
    THEN << "lock", "resolve", "unlock" >>
    ELSE << "lock", "resolve" >> \o DlPlaneReads(0, vt_formats[f].planes)
         \o << "copy_attributes", "pool_copy", "unlock" >>

\* lock count of buffer b after the steps of trace have run
RECURSIVE DlLockCount(_, _)
DlLockCount(cnt, trace) ==
    IF trace = << >> THEN cnt
    ELSE DlLockCount(IF Head(trace) = "lock" THEN cnt + 1
                     ELSE IF Head(trace) = "unlock" THEN cnt - 1
                     ELSE cnt, Tail(trace))

\* download_image, reached through the registered hwctx.  A frame without the
\* hardware tag is a software image (no pixel buffer is touched); one with it
\* carries buffer b, whose pixel format is drawn where the code queries it.
download_image(tag, b, pts) ==
    /\ "hwctx" \in devs
    /\ callerRef[b]
    /\ op' = "download_image"
    /\ IF tag # IMGFMT_VIDEOTOOLBOX
       THEN /\ hw_image' = [NoFrame EXCEPT !.imgfmt = tag, !.pts = pts]
            /\ dl_trace' = << >>
            /\ dl_image' = << >>
            /\ UNCHANGED lockcnt
       ELSE \E cvpixfmt \in PixelFormatTypes : \E pool_ok \in BOOLEAN :
            LET f  == vt_get_gl_format(cvpixfmt)
                hw == [NoFrame EXCEPT !.imgfmt = tag, !.pbuf = b, !.cvpixfmt = cvpixfmt,
                                      !.pts = pts]
            IN
            /\ hw_image' = hw
            /\ dl_trace' = DlSteps(f)
            /\ lockcnt' = [lockcnt EXCEPT ![b] = DlLockCount(@, DlSteps(f))]
            /\ dl_image' = IF f = NULL THEN << >>
                           ELSE mp_image_pool_new_copy(pool_ok, DlView(f, hw))
    /\ UNCHANGED << lifeVars, envVars, bufVars, mapVars, fmtVars, msg, ret >>

\* ---------------------------------------------------------- specification
Next ==
    \/ create
    \/ \E b \in Bufs : Decode(b)
    \/ \E b \in Bufs : Unref(b)
    \/ \E b \in Bufs : map_frame(b)
    \/ destroy

Spec == Init /\ [][Next]_vars

\* the format side of the driver: table lookups, reinit and get_vt_fmt
NextFmt ==
    \/ create
    \/ \E imgfmt \in {IMGFMT_VIDEOTOOLBOX, IMGFMT_NV12} : \E s \in FormatKeys :
          SetParams(imgfmt, s)
    \/ reinit
    \/ \E o \in {k \in FormatKeys : k < IMGFMT_VIDEOTOOLBOX} : get_vt_fmt(o)
    \/ \E k \in FormatKeys : Lookup(k)

SpecFmt == Init /\ [][NextFmt]_vars

\* the CPU fallback: frames from the decoder copied out through download_image
NextDl ==
    \/ create
    \/ \E b \in Bufs : Decode(b)
    \/ \E b \in Bufs : Unref(b)
    \/ \E tag \in {IMGFMT_VIDEOTOOLBOX, IMGFMT_NV12} : \E b \in Bufs : \E pts \in 0 .. 1 :
          download_image(tag, b, pts)

SpecDl == Init /\ [][NextDl]_vars

\* ------------------------------------------------------------ properties
Entries == 1 .. Len(vt_formats)

EntriesWithCvpixfmt(x) == {e \in Entries : vt_formats[e].cvpixfmt = x}

EntriesWithImgfmt(x) == {e \in Entries : vt_formats[e].imgfmt = x}

CountOf(trace, step) == Cardinality({i \in DOMAIN trace : trace[i] = step})

\* C1: while the component is live it holds exactly one retained reference,
\* to the buffer in its slot, and none to any other buffer (all it retained
\* earlier were released as often as retained); once a map_frame call has
\* returned, with success or with an error, the slot holds that call's frame
\* buffer, which is still alive.
C1_OneRetainedReference ==
    /\ hw_state = "ready" =>
          /\ \A b \in Bufs : held[b] = IF b = pbuf THEN 1 ELSE 0
          /\ \A b \in Bufs : refcnt[b] = held[b] + (IF callerRef[b] THEN 1 ELSE 0)
    /\ (op = "map_frame" /\ hw_state = "ready") =>
          /\ pbuf # NULL
          /\ pbuf = hw_image.pbuf
          /\ refcnt[pbuf] >= 1

\* a failing map_frame has just replaced an earlier, successfully mapped
\* buffer, which is now freed
C1_Witness ==
    /\ op = "map_frame" /\ hw_state = "ready" /\ ret = -1
    /\ \E b \in Bufs : /\ b # pbuf
                       /\ texImage[gl_planes[0]] = << b, 0 >>
                       /\ refcnt[b] = 0

\* C2: once destroy has returned the component holds no reference to any
\* buffer (only the frame source's references remain), none of the
\* MP_MAX_PLANES textures generated at create is still alive, and the device
\* registry no longer holds the component's descriptor.
C2_DestroyReleasesEverything ==
    hw_state = "destroyed" =>
       /\ \A b \in Bufs : held[b] = 0
       /\ \A b \in Bufs : refcnt[b] = IF callerRef[b] THEN 1 ELSE 0
       /\ Cardinality({gl_planes[i] : i \in Planes}) = MP_MAX_PLANES
       /\ \A i \in Planes : gl_planes[i] \notin textures
       /\ "hwctx" \notin devs

\* destroy ran after at least one import and freed the buffer in the slot
C2_Witness ==
    /\ hw_state = "destroyed"
    /\ pbuf # NULL
    /\ refcnt[pbuf] = 0

\* C3 as written: a map_frame that fails on an unrecognised pixel format
\* leaves the slot, every reference count, the texture bindings and out_frame
\* as they were before the call.
C3_FormatErrorMutatesNothing ==
    [][(op' = "map_frame" /\ msg' = << "CVPixelBuffer has unsupported format type" >>) =>
          /\ ret' = -1
          /\ pbuf' = pbuf
          /\ refcnt' = refcnt
          /\ texImage' = texImage
          /\ out_frame' = out_frame]_vars

\* C3 as amended: such a call returns an error and leaves the texture
\* bindings, the texture names and out_frame as they were; the slot has been
\* swapped to the frame's buffer: the old buffer lost one reference and the
\* new one gained one.
C3_FormatErrorKeepsTextures ==
    [][(op' = "map_frame" /\ msg' = << "CVPixelBuffer has unsupported format type" >>) =>
          /\ ret' = -1
          /\ texImage' = texImage
          /\ out_frame' = out_frame
          /\ gl_planes' = gl_planes
          /\ textures' = textures
          /\ pbuf' = hw_image'.pbuf
          /\ \A b \in Bufs :
                refcnt'[b] = refcnt[b] - (IF b = pbuf THEN 1 ELSE 0)
                                       + (IF b = pbuf' THEN 1 ELSE 0)]_vars

\* a format error on a buffer other than the one mapped before, with
\* out_frame still holding the earlier mapping
C3_Witness ==
    /\ op = "map_frame"
    /\ msg = << "CVPixelBuffer has unsupported format type" >>
    /\ out_frame[0] # NoPlane
    /\ \E b \in Bufs : b # pbuf /\ texImage[gl_planes[0]] = << b, 0 >>

\* C4: download_image never returns with the buffer lock held: on a frame
\* with the hardware tag it locks once and unlocks once, whether or not the
\* pixel format resolves; on a frame with another tag it neither locks nor
\* unlocks.
C4_LockReleasedOnEveryPath ==
    /\ \A b \in Bufs : lockcnt[b] = 0
    /\ op = "download_image" =>
          /\ CountOf(dl_trace, "lock") = CountOf(dl_trace, "unlock")
          /\ CountOf(dl_trace, "lock") =
                IF hw_image.imgfmt = IMGFMT_VIDEOTOOLBOX THEN 1 ELSE 0
          /\ dl_trace # << >> =>
                dl_trace[1] = "lock" /\ dl_trace[Len(dl_trace)] = "unlock"

\* the early exit for an unresolved pixel format, taken with the lock held
C4_Witness ==
    /\ op = "download_image"
    /\ hw_image.imgfmt = IMGFMT_VIDEOTOOLBOX
    /\ EntriesWithCvpixfmt(hw_image.cvpixfmt) = {}
    /\ CountOf(dl_trace, "lock") = 1
    /\ dl_image = << >>

\* C5: download_image returns an image only for a frame with the hardware tag
\* whose pixel format has a table entry, and the image then has that entry's
\* imgfmt; for any other tag or an unresolved pixel format it returns NULL.
C5_ImageOnlyForResolvedFormat ==
    op = "download_image" =>
       /\ dl_image # << >> =>
             /\ hw_image.imgfmt = IMGFMT_VIDEOTOOLBOX
             /\ \E e \in EntriesWithCvpixfmt(hw_image.cvpixfmt) :
                   dl_image[1].imgfmt = vt_formats[e].imgfmt
       /\ (hw_image.imgfmt # IMGFMT_VIDEOTOOLBOX
             \/ EntriesWithCvpixfmt(hw_image.cvpixfmt) = {}) => dl_image = << >>

\* a planar 4:2:0 buffer downloaded as an IMGFMT_420P image
C5_Witness ==
    /\ op = "download_image"
    /\ hw_image.cvpixfmt = kCVPixelFormatType_420YpCbCr8Planar
    /\ dl_image # << >>
    /\ dl_image[1].imgfmt = IMGFMT_420P

\* C6: reinit on params carrying the driver's image format: when the
\* subformat has no table entry it returns an error and leaves imgfmt and
\* hw_subfmt as they were; when it has one it returns success, sets imgfmt to
\* the entry's image format and hw_subfmt to 0.
C6_ReinitRewritesOrLeaves ==
    [][(op' = "reinit" /\ params.imgfmt = IMGFMT_VIDEOTOOLBOX) =>
          IF EntriesWithImgfmt(params.hw_subfmt) = {}
          THEN ret' = -1 /\ params' = params
          ELSE /\ ret' = 0
               /\ params'.hw_subfmt = 0
               /\ \E e \in EntriesWithImgfmt(params.hw_subfmt) :
                     params'.imgfmt = vt_formats[e].imgfmt]_vars

\* reinit refused a subformat with no entry and the params still carry it
C6_Witness ==
    /\ op = "reinit" /\ ret = -1
    /\ params.imgfmt = IMGFMT_VIDEOTOOLBOX
    /\ params.hw_subfmt = kCVPixelFormatType_24RGB

\* C7 as written: reinit succeeds exactly when hw_subfmt is the cvpixfmt of
\* some table entry, and then writes that entry's imgfmt.
C7_ReinitResolvesByHardwareId ==
    [][(op' = "reinit" /\ params.imgfmt = IMGFMT_VIDEOTOOLBOX) =>
          /\ ret' = 0 <=> EntriesWithCvpixfmt(params.hw_subfmt) # {}
          /\ ret' = 0 => \E e \in EntriesWithCvpixfmt(params.hw_subfmt) :
                            params'.imgfmt = vt_formats[e].imgfmt]_vars

\* C7 as amended: reinit succeeds exactly when hw_subfmt is the imgfmt of some
\* table entry, and then writes that entry's imgfmt (the subformat itself).
C7_ReinitResolvesByImageFormat ==
    [][(op' = "reinit" /\ params.imgfmt = IMGFMT_VIDEOTOOLBOX) =>
          /\ ret' = 0 <=> EntriesWithImgfmt(params.hw_subfmt) # {}
          /\ ret' = 0 => /\ params'.imgfmt = params.hw_subfmt
                         /\ \E e \in EntriesWithImgfmt(params.hw_subfmt) :
                               params'.imgfmt = vt_formats[e].imgfmt]_vars

\* reinit accepted the subformat IMGFMT_UYVY and wrote it to imgfmt
C7_Witness ==
    /\ op = "reinit" /\ ret = 0
    /\ params.imgfmt = IMGFMT_UYVY
    /\ params.hw_subfmt = 0

\* C8: on every table entry the two lookups are mutual inverses: looking up
\* an entry's cvpixfmt finds that entry, and looking up the imgfmt of what was
\* found finds it again (and the same starting from the imgfmt); no two
\* entries share a cvpixfmt or an imgfmt; a key that is in no entry is found
\* by neither lookup.
C8_LookupsAreInverse ==
    /\ \A e \in Entries :
          /\ lookup.key = vt_formats[e].cvpixfmt =>
                lookup.by_cv = e /\ lookup.cv_img = e
          /\ lookup.key = vt_formats[e].imgfmt =>
                lookup.by_img = e /\ lookup.img_cv = e
    /\ \A e1, e2 \in Entries :
          e1 # e2 => /\ vt_formats[e1].cvpixfmt # vt_formats[e2].cvpixfmt
                     /\ vt_formats[e1].imgfmt # vt_formats[e2].imgfmt
    /\ (EntriesWithCvpixfmt(lookup.key) = {} /\ EntriesWithImgfmt(lookup.key) = {}) =>
          lookup.by_cv = NULL /\ lookup.by_img = NULL

\* the last entry's cvpixfmt looked up and taken back through its imgfmt
C8_Witness ==
    /\ op = "lookup"
    /\ lookup.key = kCVPixelFormatType_32BGRA
    /\ lookup.by_cv = Len(vt_formats)
    /\ lookup.cv_img = Len(vt_formats)

\* C9 as written: map_frame gets past the plane-count assertion exactly when
\* the buffer is planar with the descriptor's plane count, or non-planar with
\* a one-plane descriptor; in every other case the assertion fails and no
\* plane is bound.
C9_PlaneCountValidation ==
    (op = "map_frame" /\ hw_image.surface # NULL
        /\ EntriesWithCvpixfmt(hw_image.cvpixfmt) # {}) =>
       \A e \in EntriesWithCvpixfmt(hw_image.cvpixfmt) :
          LET ok == \/ hw_image.planar /\ hw_image.planes = vt_formats[e].planes
                    \/ ~hw_image.planar /\ vt_formats[e].planes = 1
          IN IF ok
             THEN hw_state = "ready" /\ ret = 0 /\ gl_trace # << >>
             ELSE hw_state = "aborted" /\ gl_trace = << >>

\* C10: a successful map_frame on a buffer whose format resolves to an
\* n-plane descriptor writes exactly out_frame entries 0..n-1 and leaves the
\* others as they were; entry i holds texture p->gl_planes[i], the rectangle
\* target, the surface's width and height of plane i and the swizzle of
\* descriptor plane i.  The semi-planar video-range format has n = 2.
C10_PopulatedPlanes ==
    [][(op' = "map_frame" /\ hw_state' = "ready" /\ ret' = 0) =>
          /\ EntriesWithCvpixfmt(hw_image'.cvpixfmt) # {}
          /\ \A e \in EntriesWithCvpixfmt(hw_image'.cvpixfmt) :
                /\ hw_image'.cvpixfmt = kCVPixelFormatType_420YpCbCr8BiPlanarVideoRange
                      => vt_formats[e].planes = 2
                /\ \A i \in Planes :
                      IF i < vt_formats[e].planes
                      THEN out_frame'[i] =
                              [gl_texture |-> gl_planes[i],
                               gl_target  |-> GL_TEXTURE_RECTANGLE,
                               tex_w      |-> IOSurfaceGetWidthOfPlane(hw_image'.surface, i),
                               tex_h      |-> IOSurfaceGetHeightOfPlane(hw_image'.surface, i),
                               swizzle    |-> vt_formats[e].gl[i].swizzle]
                      ELSE out_frame'[i] = out_frame[i]]_vars

\* a two-plane import over an out_frame whose third entry was left by an
\* earlier three-plane import
C10_Witness ==
    /\ op = "map_frame" /\ hw_state = "ready" /\ ret = 0
    /\ hw_image.cvpixfmt = kCVPixelFormatType_420YpCbCr8BiPlanarVideoRange
    /\ out_frame[1].tex_w = 32 /\ out_frame[1].tex_h = 24
    /\ out_frame[2] # NoPlane
    /\ out_frame[3] = NoPlane
\* C11: a successful map_frame on an n-plane descriptor has issued, for each
\* plane 0..n-1 in increasing order and whatever planes failed to import, a
\* bind of p->gl_planes[i], the import call for plane i and a bind of 0; it
\* logs one error per failed plane and still returns success.
C11_ImportFailureDoesNotAbort ==
    (op = "map_frame" /\ hw_state = "ready" /\ ret = 0) =>
       \A e \in EntriesWithCvpixfmt(hw_image.cvpixfmt) :
          /\ Len(gl_trace) = 3 * vt_formats[e].planes
          /\ \A i \in 0 .. (vt_formats[e].planes - 1) :
                /\ gl_trace[3 * i + 1].call = "BindTexture"
                /\ gl_trace[3 * i + 1].arg = gl_planes[i]
                /\ gl_trace[3 * i + 2].call = "CGLTexImageIOSurface2D"
                /\ gl_trace[3 * i + 2].plane = i
                /\ gl_trace[3 * i + 3].call = "BindTexture"
                /\ gl_trace[3 * i + 3].arg = 0
          /\ Len(msg) = Cardinality({k \in DOMAIN gl_trace : gl_trace[k].err # kCGLNoError})

\* the import of plane 0 of a three-plane buffer failed, planes 1 and 2 were
\* still imported and the call returned success
C11_Witness ==
    /\ op = "map_frame" /\ hw_state = "ready" /\ ret = 0
    /\ hw_image.cvpixfmt = kCVPixelFormatType_420YpCbCr8Planar
    /\ gl_trace[2].err # kCGLNoError
    /\ Len(gl_trace) = 9
    /\ gl_trace[5].err = kCGLNoError /\ gl_trace[8].err = kCGLNoError
    /\ msg # << >>
\* C12 as written: whenever map_frame returns success, every out_frame entry
\* it populated names a texture that is bound to the matching plane of the
\* surface of the buffer now in the retained slot.
C12_PopulatedEntriesAreBound ==
    (op = "map_frame" /\ hw_state = "ready" /\ ret = 0) =>
       \A e \in EntriesWithCvpixfmt(hw_image.cvpixfmt) :
          \A i \in 0 .. (vt_formats[e].planes - 1) :
             texImage[out_frame[i].gl_texture] = << pbuf, i >>

\* C12 as amended: whenever map_frame returns success, every out_frame entry
\* whose plane was imported without error names a texture bound to that plane
\* of the surface of the buffer now in the retained slot; an entry whose
\* import failed names a texture whose backing is what it was before the call.
C12_ImportedEntriesAreBound ==
    [][(op' = "map_frame" /\ hw_state' = "ready" /\ ret' = 0) =>
          \A e \in EntriesWithCvpixfmt(hw_image'.cvpixfmt) :
             \A i \in 0 .. (vt_formats[e].planes - 1) :
                IF gl_trace'[3 * i + 2].err = kCGLNoError
                THEN texImage'[out_frame'[i].gl_texture] = << pbuf', i >>
                ELSE texImage'[out_frame'[i].gl_texture]
                        = texImage[out_frame'[i].gl_texture]]_vars

\* success was returned although plane 0 failed to import: its texture is
\* still backed by the buffer mapped before, plane 1 by the new buffer
C12_Witness ==
    /\ op = "map_frame" /\ hw_state = "ready" /\ ret = 0
    /\ hw_image.cvpixfmt = kCVPixelFormatType_420YpCbCr8BiPlanarVideoRange
    /\ gl_trace[2].err # kCGLNoError
    /\ texImage[out_frame[1].gl_texture] = << pbuf, 1 >>
    /\ \E b \in Bufs : b # pbuf /\ texImage[out_frame[0].gl_texture] = << b, 0 >>
\* C13: create fails exactly when the GL version is below 300 or there is no
\* current CGL context.  While the component is not created no texture is
\* generated, no private state is attached and nothing is registered; when
\* create succeeds MP_MAX_PLANES textures are generated and exactly one
\* device descriptor is registered.
C13_CreateFailsOnCapability ==
    /\ hw_state = "uninit" =>
          /\ textures = {}
          /\ ~hw_priv
          /\ devs = {}
    /\ op = "create" =>
          /\ ret = -1 <=> (gl_version < 300 \/ ~cgl_context)
          /\ ret = -1 => hw_state = "uninit"
          /\ ret # -1 =>
                /\ ret = 0
                /\ hw_state = "ready"
                /\ hw_priv
                /\ Cardinality(textures) = MP_MAX_PLANES
                /\ textures = {gl_planes[i] : i \in Planes}
                /\ Cardinality(devs) = 1

\* create refused a context of sufficient version because none is current
C13_Witness ==
    /\ op = "create" /\ ret = -1
    /\ gl_version >= 300
    /\ ~cgl_context
    /\ hw_state = "uninit"
\* C14 as written: destroy clears the retained slot as well as releasing it,
\* so that once destroy has run the slot is empty (a further release of it
\* is a no-op), and the component has never released any buffer more often
\* than it retained it.
C14_SlotClearedAtDestroy ==
    /\ hw_state = "destroyed" => pbuf = NULL
    /\ \A b \in Bufs : held[b] >= 0
\* C15: every table entry has between 1 and MP_MAX_PLANES planes and defines
\* exactly the first `planes` slots of its gl array, the others being empty;
\* so every plane index map_frame uses is inside the MP_MAX_PLANES-sized
\* arrays and has a defined layout.
C15_PlaneCountMatchesLayouts ==
    /\ \A e \in Entries :
          /\ vt_formats[e].planes \in 1 .. MP_MAX_PLANES
          /\ DOMAIN vt_formats[e].gl = Planes
          /\ \A i \in Planes :
                (vt_formats[e].gl[i] # NoPlaneFormat) <=> (i < vt_formats[e].planes)
    /\ \A k \in DOMAIN gl_trace :
          /\ gl_trace[k].plane \in Planes
          /\ gl_trace[k].plane \in DOMAIN gl_planes
          /\ \A e \in EntriesWithCvpixfmt(hw_image.cvpixfmt) :
                vt_formats[e].gl[gl_trace[k].plane] # NoPlaneFormat

\* a three-plane import reached plane index 2, the largest any entry uses
C15_Witness ==
    /\ op = "map_frame" /\ hw_state = "ready" /\ ret = 0
    /\ hw_image.cvpixfmt = kCVPixelFormatType_420YpCbCr8Planar
    /\ Len(gl_trace) = 9
    /\ gl_trace[9].plane = 2
    /\ out_frame[2].gl_texture = gl_planes[2]
\* C16: a map_frame call that returns does so with an error exactly when the
\* buffer has no IOSurface or its pixel format has no table entry, the
\* missing surface being reported whatever the format; on an error return no
\* GL or CGL call was issued, no texture backing changed and out_frame is as
\* it was before the call.
C16_ErrorExactlyOnSurfaceOrFormat ==
    [][(op' = "map_frame" /\ hw_state' = "ready") =>
          /\ ret' = -1 <=> (hw_image'.surface = NULL
                              \/ EntriesWithCvpixfmt(hw_image'.cvpixfmt) = {})
          /\ ret' # -1 => ret' = 0
          /\ hw_image'.surface = NULL => msg' = << "CVPixelBuffer has no IOSurface" >>
          /\ (hw_image'.surface # NULL /\ EntriesWithCvpixfmt(hw_image'.cvpixfmt) = {})
                => msg' = << "CVPixelBuffer has unsupported format type" >>
          /\ ret' = -1 =>
                /\ gl_trace' = << >>
                /\ texImage' = texImage
                /\ out_frame' = out_frame]_vars

\* a buffer without IOSurface was refused after an earlier successful import,
\* whose out_frame entry and texture backing are still in place
C16_Witness ==
    /\ op = "map_frame" /\ hw_state = "ready" /\ ret = -1
    /\ hw_image.surface = NULL
    /\ msg = << "CVPixelBuffer has no IOSurface" >>
    /\ gl_trace = << >>
    /\ out_frame[0] # NoPlane
    /\ texImage[gl_planes[0]] # << >>
\* C17: from create to destroy the texture handles are fixed: no step that
\* leaves the component live, and no map_frame call whatever it returns,
\* changes an entry of p->gl_planes or the set of generated textures; and
\* every populated out_frame entry names one of the handles in p->gl_planes,
\* which is a generated texture for as long as the component is live.
C17_TextureHandlesFixed ==
    [][/\ (op' = "map_frame" \/ (hw_state = "ready" /\ hw_state' = "ready")) =>
             /\ gl_planes' = gl_planes
             /\ textures' = textures
       /\ \A i \in Planes :
             out_frame'[i].gl_target # 0 =>
                /\ \E j \in Planes : out_frame'[i].gl_texture = gl_planes'[j]
                /\ hw_state' = "ready" => out_frame'[i].gl_texture \in textures']_vars

\* a second buffer has been imported over the first one, through the same
\* handles that create generated
C17_Witness ==
    /\ op = "map_frame" /\ hw_state = "ready" /\ ret = 0
    /\ Cardinality(textures) = MP_MAX_PLANES
    /\ \A i \in 0 .. 1 : out_frame[i].gl_texture = gl_planes[i]
                          /\ texImage[gl_planes[i]] = << pbuf, i >>
    /\ \E b \in Bufs : b # pbuf /\ texImage[gl_planes[2]] = << b, 2 >>
\* the order the claim prescribes for the steps of download_image
StepOrder ==
    << "lock", "resolve", "read_plane", "copy_attributes", "pool_copy", "unlock" >>

\* position of a step in that order
StepRank(step) == CHOOSE k \in DOMAIN StepOrder : StepOrder[k] = step

\* C18: download_image on a frame with the hardware tag acquires the lock
\* first and releases it last, so every read of a plane's base address and
\* stride and the copy into the pool fall between the two; the steps run in
\* the order lock, resolve format, read planes (one per table plane), copy
\* attributes, pool copy, unlock; and a returned image points only into pool
\* memory, never into the buffer.
C18_BufferAccessUnderLock ==
    (op = "download_image" /\ dl_trace # << >>) =>
       LET n == Len(dl_trace) IN
       /\ dl_trace[1] = "lock" /\ dl_trace[2] = "resolve" /\ dl_trace[n] = "unlock"
       /\ \A i \in 2 .. n - 1 : dl_trace[i] \notin {"lock", "unlock"}
       /\ \A i, j \in DOMAIN dl_trace :
             i < j => StepRank(dl_trace[i]) <= StepRank(dl_trace[j])
       /\ \A e \in EntriesWithCvpixfmt(hw_image.cvpixfmt) :
             /\ CountOf(dl_trace, "read_plane") = vt_formats[e].planes
             /\ CountOf(dl_trace, "copy_attributes") = 1
             /\ CountOf(dl_trace, "pool_copy") = 1
       /\ dl_image # << >> =>
             \A i \in Planes :
                /\ dl_image[1].planes[i] # PbufMem(hw_image.pbuf)
                /\ dl_image[1].planes[i] \in {NULL, PoolMem}

\* a bi-planar buffer read under the lock and returned as a pool copy
C18_Witness ==
    /\ op = "download_image"
    /\ hw_image.cvpixfmt = kCVPixelFormatType_420YpCbCr8BiPlanarVideoRange
    /\ dl_trace = << "lock", "resolve", "read_plane", "read_plane",
                     "copy_attributes", "pool_copy", "unlock" >>
    /\ dl_image # << >>
    /\ dl_image[1].planes[0] = PoolMem /\ dl_image[1].planes[1] = PoolMem
\* C19: in every map_frame call, made by a caller that holds its own
\* reference to the incoming buffer, the count of that buffer is at least 1
\* after the release of the slot's old buffer, so the retain acts on a live
\* buffer, and at least 2 after the retain.  When the incoming buffer is the
\* one the slot already retains, its count after the call equals its count
\* before the call; otherwise the call adds one reference to it.
C19_RemapKeepsBufferAlive ==
    [][op' = "map_frame" =>
          LET b == hw_image'.pbuf IN
          /\ callerRef[b]
          /\ CVPixelBufferRelease(refcnt, pbuf)[b] >= 1
          /\ refcnt'[b] >= 2
          /\ refcnt'[b] = IF b = pbuf THEN refcnt[b] ELSE refcnt[b] + 1
          /\ \A c \in Bufs : refcnt'[c] >= 0]_vars

\* the one live buffer has been mapped again over its own import:
\* plane 0 failed to import and its texture still shows that buffer's plane
\* from the call before
C19_Witness ==
    /\ op = "map_frame" /\ hw_state = "ready" /\ ret = 0
    /\ gl_trace # << >>
    /\ gl_trace[2].err # kCGLNoError
    /\ texImage[gl_planes[0]] = << pbuf, 0 >>
    /\ refcnt[pbuf] = 2
    /\ \A c \in Bufs : c # pbuf => refcnt[c] = 0
====
